---------------------------- MODULE Spec2Model ----------------------------
(***************************************************************************)
(* A model of Inifltration.py: calculate_thermal_load(), the one function  *)
(* of the repository, as a state machine whose program counter walks the   *)
(* statements of the function in source order.                             *)
(*                                                                         *)
(* Numbers.  The program computes with floating-point numbers.  They are   *)
(* modelled as exact signed rationals, extended with the IEEE values the   *)
(* program can produce (signed zero, +inf, -inf, nan).  Rounding and       *)
(* overflow of the binary format are not modelled.  Numerators and         *)
(* denominators exceed the range of 32-bit machine integers (lat = 2496e3,  *)
(* Qla = 71/1200000), so they are kept as little-endian sequences of       *)
(* limbs in base 10^4.  The arithmetic is written as functions, which take *)
(* their arguments by value.                                               *)
(***************************************************************************)
EXTENDS Integers, Sequences, FiniteSets, TLC

(***************************************************************************)
(* Natural numbers of unbounded size: <<>> is 0, a[1] the lowest limb, the *)
(* highest limb is never 0.                                                *)
(***************************************************************************)
Base == 10^4

Big == Seq(0..(Base - 1))

NFromInt[i \in Nat] ==
  IF i = 0 THEN <<>> ELSE <<i % Base>> \o NFromInt[i \div Base]

NTrim[a \in Big] ==
  IF a # <<>> /\ a[Len(a)] = 0 THEN NTrim[SubSeq(a, 1, Len(a) - 1)] ELSE a

NAddC[a \in Big, b \in Big, c \in Nat] ==
  IF a = <<>> /\ b = <<>>
  THEN (IF c = 0 THEN <<>> ELSE <<c>>)
  ELSE LET x == IF a = <<>> THEN 0 ELSE Head(a)
           y == IF b = <<>> THEN 0 ELSE Head(b)
           s == x + y + c
       IN  <<s % Base>> \o NAddC[IF a = <<>> THEN <<>> ELSE Tail(a),
                                 IF b = <<>> THEN <<>> ELSE Tail(b),
                                 s \div Base]

NAdd[a \in Big, b \in Big] == NAddC[a, b, 0]

NCmpFrom[a \in Big, b \in Big, i \in Nat] ==
  IF i = 0 THEN 0
  ELSE IF a[i] # b[i] THEN (IF a[i] < b[i] THEN -1 ELSE 1)
  ELSE NCmpFrom[a, b, i - 1]

\* -1, 0 or 1 as a < b, a = b, a > b
NCmp[a \in Big, b \in Big] ==
  IF Len(a) # Len(b) THEN (IF Len(a) < Len(b) THEN -1 ELSE 1)
  ELSE NCmpFrom[a, b, Len(a)]

NSubB[a \in Big, b \in Big, br \in Nat] ==
  IF a = <<>> THEN <<>>
  ELSE LET y == IF b = <<>> THEN 0 ELSE Head(b)
           t == Head(a) - y - br
       IN  <<IF t < 0 THEN t + Base ELSE t>>
             \o NSubB[Tail(a), IF b = <<>> THEN <<>> ELSE Tail(b),
                      IF t < 0 THEN 1 ELSE 0]

\* a - b, for a >= b
NSub[a \in Big, b \in Big] == NTrim[NSubB[a, b, 0]]

NMulSmall[a \in Big, k \in Nat, c \in Nat] ==
  IF a = <<>>
  THEN (IF c = 0 THEN <<>> ELSE <<c>>)
  ELSE LET s == Head(a) * k + c
       IN  <<s % Base>> \o NMulSmall[Tail(a), k, s \div Base]

\* a * Base
NShift[a \in Big] == IF a = <<>> THEN <<>> ELSE <<0>> \o a

NMul[a \in Big, b \in Big] ==
  IF a = <<>> \/ b = <<>> THEN <<>>
  ELSE NAdd[NTrim[NMulSmall[a, Head(b), 0]], NShift[NMul[a, Tail(b)]]]

\* <<quotient, remainder>> of a by b, from qr, those of a by 2 * b
NHalve[qr \in Seq(Big), b \in Big] ==
  IF NCmp[qr[2], b] >= 0
  THEN <<NAdd[NAdd[qr[1], qr[1]], <<1>>], NSub[qr[2], b]>>
  ELSE <<NAdd[qr[1], qr[1]], qr[2]>>

\* <<quotient, remainder>> of a by b, for b > 0
NDivMod[a \in Big, b \in Big] ==
  IF NCmp[a, b] < 0 THEN <<<<>>, a>>
  ELSE NHalve[NDivMod[a, NAdd[b, b]], b]

NGcd[a \in Big, b \in Big] == IF b = <<>> THEN a ELSE NGcd[b, NDivMod[a, b][2]]

NPow10[k \in Nat] == IF k = 0 THEN <<1>> ELSE NMulSmall[NPow10[k - 1], 10, 0]

(***************************************************************************)
(* Floating-point values: [k, neg, n, d].  k = "fin" is the rational       *)
(* (-1)^neg * n / d in lowest terms (n = 0 with neg = TRUE is -0.0),       *)
(* k = "inf" is the infinity of sign neg, k = "nan" is not-a-number.       *)
(***************************************************************************)
Vals ==
  [k : {"fin", "inf", "nan", "unset", "raise"}, neg : BOOLEAN, n : Big, d : Big]

\* (-1)^neg * n / d with the common factor g of n and d taken out
Reduced[neg \in BOOLEAN, n \in Big, d \in Big, g \in Big] ==
  [k |-> "fin", neg |-> neg, n |-> NDivMod[n, g][1], d |-> NDivMod[d, g][1]]

Fin[neg \in BOOLEAN, n \in Big, d \in Big] == Reduced[neg, n, d, NGcd[n, d]]

Inf(neg) == [k |-> "inf", neg |-> neg, n |-> <<>>, d |-> <<1>>]

NaN == [k |-> "nan", neg |-> FALSE, n |-> <<>>, d |-> <<1>>]

\* the literal i / j, for j > 0
Q(i, j) == Fin[i < 0, NFromInt[IF i < 0 THEN -i ELSE i], NFromInt[j]]

IsZero[a \in Vals] == a.k = "fin" /\ a.n = <<>>

VNeg[a \in Vals] == IF a.k = "nan" THEN a ELSE [a EXCEPT !.neg = ~a.neg]

VMul[a \in Vals, b \in Vals] ==
  IF a.k = "nan" \/ b.k = "nan" THEN NaN
  ELSE IF a.k = "inf" \/ b.k = "inf"
       THEN (IF IsZero[a] \/ IsZero[b] THEN NaN ELSE Inf(a.neg # b.neg))
  ELSE Fin[a.neg # b.neg, NMul[a.n, b.n], NMul[a.d, b.d]]

\* IEEE division: x/0 is an infinity or nan (what numpy.float64 returns)
VDiv[a \in Vals, b \in Vals] ==
  IF a.k = "nan" \/ b.k = "nan" THEN NaN
  ELSE IF a.k = "inf"
       THEN (IF b.k = "inf" THEN NaN ELSE Inf(a.neg # b.neg))
  ELSE IF b.k = "inf" THEN Fin[a.neg # b.neg, <<>>, <<1>>]
  ELSE IF IsZero[b]
       THEN (IF IsZero[a] THEN NaN ELSE Inf(a.neg # b.neg))
  ELSE Fin[a.neg # b.neg, NMul[a.n, b.d], NMul[a.d, b.n]]

\* ((-1)^xneg * x + (-1)^yneg * y) / den; x + (-x) is +0.0
SignedSum[xneg \in BOOLEAN, x \in Big, yneg \in BOOLEAN, y \in Big, den \in Big] ==
  IF xneg = yneg THEN Fin[xneg, NAdd[x, y], den]
  ELSE IF NCmp[x, y] = 0 THEN Fin[FALSE, <<>>, <<1>>]
  ELSE IF NCmp[x, y] > 0 THEN Fin[xneg, NSub[x, y], den]
  ELSE Fin[yneg, NSub[y, x], den]

VAdd[a \in Vals, b \in Vals] ==
  IF a.k = "nan" \/ b.k = "nan" THEN NaN
  ELSE IF a.k = "inf"
       THEN (IF b.k = "inf" /\ a.neg # b.neg THEN NaN ELSE a)
  ELSE IF b.k = "inf" THEN b
  ELSE SignedSum[a.neg, NMul[a.n, b.d], b.neg, NMul[b.n, a.d], NMul[a.d, b.d]]

VSub[a \in Vals, b \in Vals] == VAdd[a, VNeg[b]]

\* a > b as the language compares floats: FALSE when either is nan
IsPositive[a \in Vals] == a.k \in {"fin", "inf"} /\ ~a.neg /\ ~IsZero[a]

VGt[a \in Vals, b \in Vals] == IsPositive[VSub[a, b]]

\* a == b as the language compares floats (-0.0 == 0.0, nan equals nothing)
VEq[a \in Vals, b \in Vals] ==
  /\ a.k # "nan" /\ b.k # "nan"
  /\ \/ IsZero[VSub[a, b]]
     \/ a.k = "inf" /\ b.k = "inf" /\ a.neg = b.neg

VAbs[a \in Vals] == IF a.k = "nan" THEN a ELSE [a EXCEPT !.neg = FALSE]

(***************************************************************************)
(* The format specs ".2f" and ".3f": the value rounded to `digits` decimal *)
(* places, ties to even; inf and nan print as themselves.                  *)
(***************************************************************************)
\* the quotient qr[1] of x by d, rounded by the remainder qr[2]: up when
\* it is more than half of d, to the even neighbour when it is the half
NRound[qr \in Seq(Big), d \in Big] ==
  IF \/ NCmp[NAdd[qr[2], qr[2]], d] > 0
     \/ NCmp[NAdd[qr[2], qr[2]], d] = 0 /\ qr[1] # <<>> /\ qr[1][1] % 2 = 1
  THEN NAdd[qr[1], <<1>>]
  ELSE qr[1]

Fmt[a \in Vals, digits \in Nat] ==
  IF a.k # "fin" THEN a
  ELSE Fin[a.neg, NRound[NDivMod[NMul[a.n, NPow10[digits]], a.d], a.d],
           NPow10[digits]]

(***************************************************************************)
(* The constants of calculate_thermal_load, under their source names       *)
(* (theta for the Greek letters of the source).                            *)
(***************************************************************************)
c == Q(1000, 1)
lat == Q(2496000, 1)
theta_i == Q(23, 1)
theta_s == VAdd[theta_i, Q(15, 1)]
V == Q(3 * 3 * 8, 1)
Uw == Q(7, 10)
Sw == Q(3 * 8, 1)
theta_o == Q(-73, 10)
p == Q(1, 1)
Vp == Q(36, 1)
Vd == VDiv[VMul[p, Vp], Q(3600, 1)]
psi == Q(91, 1000)
h == Q(8, 1)
l == Q(3, 1)
L == VAdd[VMul[Q(2, 1), h], VMul[Q(2, 1), l]]
Qi == VMul[Q(70, 1), p]
ACH == Q(1, 2)
mvp == VDiv[Q(71, 1000), Q(3600, 1)]
Qla == VMul[VMul[p, mvp], l]

(***************************************************************************)
(* The formulas of the function, one operator per assignment.              *)
(***************************************************************************)
VinfOf_AchDropped(ach) == VDiv[V, Q(3600, 1)]

\* line 59: Vinf = ACH * V / 3600
VinfOf(ach) == VDiv[VMul[ach, V], Q(3600, 1)]

\* line 60: minf = Vinf / psy.v(theta_o, wo)
MinfOf(vinf, v) == VDiv[vinf, v]

\* line 63 (and line 71, the same expression): mp = Vd / psy.v(theta_o, wo)
MpOf(v) == VDiv[Vd, v]

QsOf_WallAbsolute(to, minf) ==
  VAdd[VAdd[VAdd[VMul[VMul[Uw, Sw], to],
                 VMul[VMul[minf, c], VSub[to, theta_i]]],
            VMul[VMul[psi, L], VSub[to, theta_i]]],
       Qi]

\* line 64: Qs = Uw*Sw*(to-ti) + minf*c*(to-ti) + psi*L*(to-ti) + Qi
QsOf(to, minf) ==
  VAdd[VAdd[VAdd[VMul[VMul[Uw, Sw], VSub[to, theta_i]],
                 VMul[VMul[minf, c], VSub[to, theta_i]]],
            VMul[VMul[psi, L], VSub[to, theta_i]]],
       Qi]

\* line 72: Qlat = m * lat * (wo - phi) + Qla
QlatOf(mm, w, ph) == VAdd[VMul[VMul[mm, lat], VSub[w, ph]], Qla]

\* line 76: m = -Qs / (c * (theta_s - theta_i))
MRawOf(qs) == VDiv[VNeg[qs], VMul[c, VSub[theta_s, theta_i]]]

\* line 77: ws = phi - Qlat / (m * lat)
WsOf(ph, qlat, mm) == VSub[ph, VDiv[qlat, VMul[mm, lat]]]

ClampM_Floor(mm, mpp) == IF VGt[mpp, mm] THEN mpp ELSE mm

\* lines 82-83: if m > mp: m = mp
ClampM(mm, mpp) == IF VGt[mm, mpp] THEN mpp ELSE mm

\* one item of a printed line: f"{name} = {val:.{digits}f} {unit}"
Item(name, val, digits, unit) ==
  [name |-> name, val |-> Fmt[val, digits], unit |-> unit]

(***************************************************************************)
(* State.                                                                  *)
(*   sheet, psyW, psyV, npFloat: the environment of one run, which the     *)
(*     program only reads: the file humidity.csv, the results of           *)
(*     psy.w(theta_o, phi, Z=0) and psy.v(theta_o, wo) (psychro is a       *)
(*     library of pure functions, so the three calls of psy.v with the     *)
(*     same arguments give the same result), and whether the numbers       *)
(*     derived from the sheet and from psychro are numpy.float64 scalars   *)
(*     (division by zero gives inf or nan) or Python floats (it raises     *)
(*     ZeroDivisionError).                                                 *)
(*   pc: the statement about to run.  phi .. ws: the local variables.      *)
(*   out: the lines printed so far.  err: the uncaught exception.          *)
(*   fnArgs, fnRes: arguments and results of the formulas when they are    *)
(*     checked on their own (SpecFn).                                      *)
(***************************************************************************)
VARIABLES sheet, psyW, psyV, npFloat,
          pc, phi, wo, Vinf, minf, mp, Qs, Qlat, m, ws, out, err,
          fnArgs, fnRes

env == <<sheet, psyW, psyV, npFloat>>
fn == <<fnArgs, fnRes>>
vars == <<sheet, psyW, psyV, npFloat,
          pc, phi, wo, Vinf, minf, mp, Qs, Qlat, m, ws, out, err,
          fnArgs, fnRes>>

\* a local variable that is not bound yet
Unset == [k |-> "unset", neg |-> FALSE, n |-> <<>>, d |-> <<1>>]

\* a call of psychro that raises
Raises == [k |-> "raise", neg |-> FALSE, n |-> <<>>, d |-> <<1>>]

NoErr == [line |-> 0, exc |-> "none"]

NoArgs == [f |-> "none", x1 |-> Unset, x2 |-> Unset, aux |-> Unset]
NoRes == [y1 |-> Unset, y2 |-> Unset, z1 |-> Unset, z2 |-> Unset]

(***************************************************************************)
(* Inputs.                                                                 *)
(***************************************************************************)
MaxHumIdx == 2
MaxAchIdx == 4
MaxThetaIdx == 3

\* humidity.csv: absent, not a workbook xlrd can open, without a row 4,
\* without a column 'I', with text in the cell, or with a number in it
Sheets ==
  {[kind |-> kd, cell |-> 0] :
     kd \in {"missing", "not_excel", "no_row", "no_col", "text"}}
  \cup {[kind |-> "ok", cell |-> 40 * i] : i \in 0..MaxHumIdx}

\* results of psy.w: unvalidated, so any number, or an exception
PsyWResults == {Raises, Q(0, 1), Q(1, 1000), Q(2, 5)}

\* the specific volume at which the sensible load is exactly zero:
\* Qs = -2498503/5000 - 303/v
VZeroLoad == Fin[TRUE, NFromInt[1515000], NFromInt[2498503]]

\* results of psy.v: unvalidated, so any number, or an exception
PsyVResults ==
  {Raises, Q(3, 4), Q(4, 5), Q(0, 1), Q(-1, 4), Q(-1, 1), VZeroLoad}

Init ==
  /\ sheet \in Sheets
  /\ psyW \in PsyWResults
  /\ psyV \in PsyVResults
  /\ npFloat \in BOOLEAN
  /\ pc = "read_excel"
  /\ phi = Unset /\ wo = Unset /\ Vinf = Unset /\ minf = Unset
  /\ mp = Unset /\ Qs = Unset /\ Qlat = Unset /\ m = Unset /\ ws = Unset
  /\ out = <<>>
  /\ err = NoErr
  /\ fnArgs = NoArgs /\ fnRes = NoRes

\* an uncaught exception ends the run: the interpreter exits with status 1
Raise(line, exc) ==
  /\ pc' = "failed"
  /\ err' = [line |-> line, exc |-> exc]

\* x / y raises ZeroDivisionError, instead of giving inf or nan
DivRaises(y) == IsZero[y] /\ ~npFloat

\* line 42: humidity_data = pd.read_excel("humidity.csv", engine='xlrd')
ReadExcel ==
  /\ pc = "read_excel"
  /\ \/ sheet.kind = "missing" /\ Raise(42, "FileNotFoundError")
     \/ sheet.kind = "not_excel" /\ Raise(42, "XLRDError")
     \/ sheet.kind \notin {"missing", "not_excel"}
        /\ pc' = "read_cell" /\ err' = err
  /\ UNCHANGED <<env, fn, phi, wo, Vinf, minf, mp, Qs, Qlat, m, ws, out>>

ReadCell_Swallowed ==
  /\ pc = "read_cell"
  /\ phi' = IF sheet.kind = "ok" THEN VDiv[Q(sheet.cell, 1), Q(100, 1)]
            ELSE Q(0, 1)
  /\ pc' = "psy_w"
  /\ UNCHANGED <<env, fn, wo, Vinf, minf, mp, Qs, Qlat, m, ws, out, err>>

\* line 44: phi = humidity_data.at[4, 'I'] / 100
ReadCell ==
  /\ pc = "read_cell"
  /\ \/ sheet.kind \in {"no_row", "no_col"}
        /\ Raise(44, "KeyError") /\ phi' = phi
     \/ sheet.kind = "text"
        /\ Raise(44, "TypeError") /\ phi' = phi
     \/ sheet.kind = "ok"
        /\ phi' = VDiv[Q(sheet.cell, 1), Q(100, 1)]
        /\ pc' = "psy_w" /\ err' = err
  /\ UNCHANGED <<env, fn, wo, Vinf, minf, mp, Qs, Qlat, m, ws, out>>

\* line 46: wo = psy.w(theta_o, phi, Z=0)
CallPsyW ==
  /\ pc = "psy_w"
  /\ \/ psyW = Raises /\ Raise(46, "PsychroError") /\ wo' = wo
     \/ psyW # Raises /\ wo' = psyW /\ pc' = "Vinf" /\ err' = err
  /\ UNCHANGED <<env, fn, phi, Vinf, minf, mp, Qs, Qlat, m, ws, out>>

\* line 59: Vinf = ACH * V / 3600
AssignVinf ==
  /\ pc = "Vinf"
  /\ Vinf' = VinfOf(ACH)
  /\ pc' = "minf"
  /\ UNCHANGED <<env, fn, phi, wo, minf, mp, Qs, Qlat, m, ws, out, err>>

\* line 60: minf = Vinf / psy.v(theta_o, wo)
AssignMinf ==
  /\ pc = "minf"
  /\ \/ psyV = Raises /\ Raise(60, "PsychroError") /\ minf' = minf
     \/ psyV # Raises /\ DivRaises(psyV)
        /\ Raise(60, "ZeroDivisionError") /\ minf' = minf
     \/ psyV # Raises /\ ~DivRaises(psyV)
        /\ minf' = MinfOf(Vinf, psyV) /\ pc' = "print_Vinf" /\ err' = err
  /\ UNCHANGED <<env, fn, phi, wo, Vinf, mp, Qs, Qlat, m, ws, out>>

\* line 61: print(f"Vinf = {Vinf:.2f} kg/s")
PrintVinf ==
  /\ pc = "print_Vinf"
  /\ out' = Append(out, <<Item("Vinf", Vinf, 2, "kg/s")>>)
  /\ pc' = "mp"
  /\ UNCHANGED <<env, fn, phi, wo, Vinf, minf, mp, Qs, Qlat, m, ws, err>>

\* line 63: mp = Vd / psy.v(theta_o, wo)
AssignMp ==
  /\ pc = "mp"
  /\ IF psyV = Raises THEN Raise(63, "PsychroError") /\ mp' = mp
     ELSE IF DivRaises(psyV) THEN Raise(63, "ZeroDivisionError") /\ mp' = mp
     ELSE mp' = MpOf(psyV) /\ pc' = "Qs" /\ err' = err
  /\ UNCHANGED <<env, fn, phi, wo, Vinf, minf, Qs, Qlat, m, ws, out>>

\* line 64: Qs = ...
AssignQs ==
  /\ pc = "Qs"
  /\ Qs' = QsOf(theta_o, minf)
  /\ pc' = "print_Qs"
  /\ UNCHANGED <<env, fn, phi, wo, Vinf, minf, mp, Qlat, m, ws, out, err>>

\* line 65: print(f"Qs = {Qs:.2f} W")
PrintQs ==
  /\ pc = "print_Qs"
  /\ out' = Append(out, <<Item("Qs", Qs, 2, "W")>>)
  /\ pc' = "m_step7"
  /\ UNCHANGED <<env, fn, phi, wo, Vinf, minf, mp, Qs, Qlat, m, ws, err>>

AssignMStep7_EnergyBalance ==
  /\ pc = "m_step7"
  /\ m' = MRawOf(Qs)
  /\ pc' = "Qlat" /\ err' = err
  /\ UNCHANGED <<env, fn, phi, wo, Vinf, minf, mp, Qs, Qlat, ws, out>>

\* line 71: m = Vd / psy.v(theta_o, wo)
AssignMStep7 ==
  /\ pc = "m_step7"
  /\ IF psyV = Raises THEN Raise(71, "PsychroError") /\ m' = m
     ELSE IF DivRaises(psyV) THEN Raise(71, "ZeroDivisionError") /\ m' = m
     ELSE m' = MpOf(psyV) /\ pc' = "Qlat" /\ err' = err
  /\ UNCHANGED <<env, fn, phi, wo, Vinf, minf, mp, Qs, Qlat, ws, out>>

\* line 72: Qlat = m * lat * (wo - phi) + Qla
AssignQlat ==
  /\ pc = "Qlat"
  /\ Qlat' = QlatOf(m, wo, phi)
  /\ pc' = "print_Qlat"
  /\ UNCHANGED <<env, fn, phi, wo, Vinf, minf, mp, Qs, m, ws, out, err>>

\* line 73: print(f"Qlat = {Qlat:.2f} W")
PrintQlat ==
  /\ pc = "print_Qlat"
  /\ out' = Append(out, <<Item("Qlat", Qlat, 2, "W")>>)
  /\ pc' = "m_step8"
  /\ UNCHANGED <<env, fn, phi, wo, Vinf, minf, mp, Qs, Qlat, m, ws, err>>

\* line 76: m = -Qs / (c * (theta_s - theta_i))
AssignMStep8 ==
  /\ pc = "m_step8"
  /\ m' = MRawOf(Qs)
  /\ pc' = "ws"
  /\ UNCHANGED <<env, fn, phi, wo, Vinf, minf, mp, Qs, Qlat, ws, out, err>>

AssignWs_AfterClamp ==
  /\ pc = "ws"
  /\ ws' = WsOf(phi, Qlat, ClampM(m, mp))
  /\ pc' = "print_m_ws" /\ err' = err
  /\ UNCHANGED <<env, fn, phi, wo, Vinf, minf, mp, Qs, Qlat, m, out>>

\* line 77: ws = phi - Qlat / (m * lat)
AssignWs ==
  /\ pc = "ws"
  /\ \/ DivRaises(VMul[m, lat])
        /\ Raise(77, "ZeroDivisionError") /\ ws' = ws
     \/ ~DivRaises(VMul[m, lat])
        /\ ws' = WsOf(phi, Qlat, m) /\ pc' = "print_m_ws" /\ err' = err
  /\ UNCHANGED <<env, fn, phi, wo, Vinf, minf, mp, Qs, Qlat, m, out>>

\* line 79: print(f"m = {m:.3f} kg/s, ws = {ws:.3f} kg/kg")
PrintMWs ==
  /\ pc = "print_m_ws"
  /\ out' = Append(out, <<Item("m", m, 3, "kg/s"), Item("ws", ws, 3, "kg/kg")>>)
  /\ pc' = "clamp"
  /\ UNCHANGED <<env, fn, phi, wo, Vinf, minf, mp, Qs, Qlat, m, ws, err>>

\* lines 82-83: if m > mp: m = mp
Clamp ==
  /\ pc = "clamp"
  /\ m' = ClampM(m, mp)
  /\ pc' = "print_m"
  /\ UNCHANGED <<env, fn, phi, wo, Vinf, minf, mp, Qs, Qlat, ws, out, err>>

PrintM_Skipped ==
  /\ pc = "print_m"
  /\ pc' = "done"
  /\ UNCHANGED <<env, fn, phi, wo, Vinf, minf, mp, Qs, Qlat, m, ws, out, err>>

\* line 84: print(f"m = {m:.3f} ks/s"), and the function returns: exit 0
PrintM ==
  /\ pc = "print_m"
  /\ out' = Append(out, <<Item("m", m, 3, "ks/s")>>)
  /\ pc' = "done"
  /\ UNCHANGED <<env, fn, phi, wo, Vinf, minf, mp, Qs, Qlat, m, ws, err>>

(***************************************************************************)
(* The formulas on their own: Vinf and minf at two values of ACH, Qs at    *)
(* two outdoor temperatures, everything else fixed.                        *)
(***************************************************************************)
AchValues == {Q(i, 4) : i \in 0..MaxAchIdx}

ThetaValues ==
  {theta_o} \cup {VAdd[theta_i, Q(j, 1)] : j \in (0 - MaxThetaIdx)..MaxThetaIdx}

FnInputs ==
  {[f |-> "infiltration", x1 |-> a1, x2 |-> a2, aux |-> v] :
     a1 \in AchValues, a2 \in AchValues,
     v \in {Q(3, 4), Q(4, 5), Q(1, 1), Q(-1, 4)}}
  \cup
  {[f |-> "sensible", x1 |-> t1, x2 |-> t2, aux |-> mf] :
     t1 \in ThetaValues, t2 \in ThetaValues,
     mf \in {Q(0, 1), Q(1, 75), Q(1, 80), Q(-9401, 500000)}}

InitFn ==
  /\ sheet = [kind |-> "missing", cell |-> 0]
  /\ psyW = Raises /\ psyV = Raises /\ npFloat = FALSE
  /\ pc = "fn"
  /\ phi = Unset /\ wo = Unset /\ Vinf = Unset /\ minf = Unset
  /\ mp = Unset /\ Qs = Unset /\ Qlat = Unset /\ m = Unset /\ ws = Unset
  /\ out = <<>>
  /\ err = NoErr
  /\ fnArgs \in FnInputs
  /\ fnRes = NoRes

\* lines 59-60 at ACH = x1 and at ACH = x2, with psy.v(theta_o, wo) = aux
ApplyInfiltration ==
  /\ pc = "fn" /\ fnArgs.f = "infiltration"
  /\ fnRes' = [y1 |-> VinfOf(fnArgs.x1), y2 |-> VinfOf(fnArgs.x2),
               z1 |-> MinfOf(VinfOf(fnArgs.x1), fnArgs.aux),
               z2 |-> MinfOf(VinfOf(fnArgs.x2), fnArgs.aux)]
  /\ pc' = "fn_done"
  /\ UNCHANGED <<env, phi, wo, Vinf, minf, mp, Qs, Qlat, m, ws, out, err, fnArgs>>

\* line 64 at theta_o = x1 and at theta_o = x2, with minf = aux
ApplySensible ==
  /\ pc = "fn" /\ fnArgs.f = "sensible"
  /\ fnRes' = [y1 |-> QsOf(fnArgs.x1, fnArgs.aux),
               y2 |-> QsOf(fnArgs.x2, fnArgs.aux),
               z1 |-> Unset, z2 |-> Unset]
  /\ pc' = "fn_done"
  /\ UNCHANGED <<env, phi, wo, Vinf, minf, mp, Qs, Qlat, m, ws, out, err, fnArgs>>

NextFn == ApplyInfiltration \/ ApplySensible

SpecFn == InitFn /\ [][NextFn]_vars

Next ==
  \/ ReadExcel \/ ReadCell \/ CallPsyW \/ AssignVinf \/ AssignMinf
  \/ PrintVinf \/ AssignMp \/ AssignQs \/ PrintQs \/ AssignMStep7
  \/ AssignQlat \/ PrintQlat \/ AssignMStep8 \/ AssignWs \/ PrintMWs
  \/ Clamp \/ PrintM

Spec == Init /\ [][Next]_vars

\* the interpreter runs the statements one after the other until the
\* function returns or an exception ends the run
FairSpec == Spec /\ WF_vars(Next)

Terminated == pc \in {"done", "failed"}

Zero == Q(0, 1)

\* the names printed on each line of o
LineNames(o) ==
  [i \in 1..Len(o) |-> [j \in 1..Len(o[i]) |-> o[i][j].name]]

\* the five lines of a complete run, in source order (lines 61, 65, 73, 79, 84)
LineOrder == << <<"Vinf">>, <<"Qs">>, <<"Qlat">>, <<"m", "ws">>, <<"m">> >>

\* where an uncaught exception came from
FromHumidityLoad == err.line \in {42, 44}
FromPsychro == err.exc = "PsychroError"
FromDivisionByM == err.line = 77 /\ err.exc = "ZeroDivisionError"
FromDivisionBySpecificVolume ==
  err.line \in {60, 63, 71} /\ err.exc = "ZeroDivisionError"

(***************************************************************************)
(* The claims.                                                             *)
(***************************************************************************)

\* C1: in every successful run the final m, and the m of the last output
\* line, is mp when the step-8 flow m_raw = -Qs/(c*(theta_s-theta_i)) exceeds
\* mp, and m_raw otherwise.
C1_Clamp ==
  pc = "done" =>
    /\ m = (IF VGt[MRawOf(Qs), mp] THEN mp ELSE MRawOf(Qs))
    /\ out[Len(out)] =
         <<Item("m", IF VGt[MRawOf(Qs), mp] THEN mp ELSE MRawOf(Qs), 3, "ks/s")>>

C1_Witness ==
  /\ pc = "done"
  /\ VGt[MRawOf(Qs), mp]
  /\ m = mp /\ ~VEq[m, MRawOf(Qs)]
  /\ out[5] = <<Item("m", mp, 3, "ks/s")>>

\* a successful run in which the clamp leaves m_raw alone
C1_WitnessUnclamped ==
  /\ pc = "done"
  /\ ~VGt[MRawOf(Qs), mp]
  /\ m = MRawOf(Qs) /\ ~VEq[m, mp]

\* C2: when the humidity source cannot be read (file missing or unreadable,
\* row 4 or column 'I' absent, text in the cell) the run never gets past the
\* load, ends with an exception of lines 42-44, and prints no line at all.
C2_NoOutputOnLoadFailure ==
  sheet.kind # "ok" =>
    /\ out = <<>>
    /\ pc \in {"read_excel", "read_cell", "failed"}
    /\ pc = "failed" => FromHumidityLoad

C2_Witness ==
  /\ sheet.kind = "no_col"
  /\ pc = "failed" /\ err = [line |-> 44, exc |-> "KeyError"]
  /\ out = <<>>

\* C3: every derived quantity is assigned once: a local variable that is
\* bound never changes its value.
C3_SingleAssignment ==
  [][/\ (wo # Unset => wo' = wo)
     /\ (Vinf # Unset => Vinf' = Vinf)
     /\ (minf # Unset => minf' = minf)
     /\ (mp # Unset => mp' = mp)
     /\ (Qs # Unset => Qs' = Qs)
     /\ (Qlat # Unset => Qlat' = Qlat)
     /\ (m # Unset => m' = m)
     /\ (ws # Unset => ws' = ws)]_vars

\* C4: the division of line 77 never runs with m <= 0: when the step-8
\* flow is zero or negative, ws is never computed and neither the line
\* "m, ws" nor the final line is printed.
C4_DivisionGuarded ==
  /\ ws # Unset => VGt[MRawOf(Qs), Zero]
  /\ (Qs # Unset /\ ~VGt[MRawOf(Qs), Zero]) =>
       (ws = Unset /\ Len(out) <= 3 /\ pc # "done")

\* C6: with the specific volume positive, ACH1 < ACH2 gives
\* Vinf(ACH1) < Vinf(ACH2) and minf(ACH1) < minf(ACH2).
C6_AchMonotone ==
  (/\ pc = "fn_done" /\ fnArgs.f = "infiltration"
   /\ VGt[fnArgs.aux, Zero]
   /\ VGt[fnArgs.x2, fnArgs.x1]) =>
    (VGt[fnRes.y2, fnRes.y1] /\ VGt[fnRes.z2, fnRes.z1])

C6_Witness ==
  /\ pc = "fn_done" /\ fnArgs.f = "infiltration"
  /\ fnArgs.x1 = Q(1, 4) /\ fnArgs.x2 = ACH /\ fnArgs.aux = Q(3, 4)
  /\ fnRes.y2 = Q(1, 100) /\ VGt[fnRes.y2, fnRes.y1]
  /\ fnRes.z2 = Q(1, 75) /\ VGt[fnRes.z2, fnRes.z1]

\* C7 as stated: |theta_o1 - theta_i| < |theta_o2 - theta_i| gives
\* |Qs(theta_o1)| < |Qs(theta_o2)|.
C7_AbsQsMonotone ==
  (/\ pc = "fn_done" /\ fnArgs.f = "sensible"
   /\ VGt[VAbs[VSub[fnArgs.x2, theta_i]], VAbs[VSub[fnArgs.x1, theta_i]]]) =>
    VGt[VAbs[fnRes.y2], VAbs[fnRes.y1]]

\* C7 as amended: with minf >= 0, |theta_o1 - theta_i| < |theta_o2 - theta_i|
\* gives |Qs(theta_o1) - Qi| < |Qs(theta_o2) - Qi|: the part of the sensible
\* load that is not the occupants' gain Qi grows with the difference.
C7_Amended ==
  (/\ pc = "fn_done" /\ fnArgs.f = "sensible"
   /\ ~VGt[Zero, fnArgs.aux]
   /\ VGt[VAbs[VSub[fnArgs.x2, theta_i]], VAbs[VSub[fnArgs.x1, theta_i]]]) =>
    VGt[VAbs[VSub[fnRes.y2, Qi]], VAbs[VSub[fnRes.y1, Qi]]]

C7_Witness ==
  /\ pc = "fn_done" /\ fnArgs.f = "sensible"
  /\ fnArgs.x1 = theta_i /\ fnArgs.x2 = Q(22, 1) /\ fnArgs.aux = Q(1, 75)
  /\ fnRes.y1 = Qi
  /\ VGt[VAbs[fnRes.y1], VAbs[fnRes.y2]]
  /\ VGt[VAbs[VSub[fnRes.y2, Qi]], VAbs[VSub[fnRes.y1, Qi]]]

\* C8 as stated: a run ends, either in success with all five lines printed,
\* or with an exception of the humidity load, of the psychrometric lookup or
\* of the division by m.
C8_Original ==
  /\ Terminated \/ ENABLED Next
  /\ pc = "done" => (Len(out) = 5 /\ err = NoErr)
  /\ pc = "failed" => (FromHumidityLoad \/ FromPsychro \/ FromDivisionByM)

\* C8 as amended: every run ends, either in success with all five lines
\* printed, or with an exception of the humidity load, of the psychrometric
\* lookup, of the division by the specific volume or of the division by m.
C8_Amended ==
  /\ <>Terminated
  /\ [](pc = "done" => (Len(out) = 5 /\ err = NoErr))
  /\ [](pc = "failed" =>
         (\/ FromHumidityLoad \/ FromPsychro
          \/ FromDivisionBySpecificVolume \/ FromDivisionByM))

C8_Witness ==
  /\ pc = "failed"
  /\ err = [line |-> 60, exc |-> "ZeroDivisionError"]
  /\ out = <<>>

\* C9: the lines are printed in the order Vinf, Qs, Qlat, (m, ws), m, each
\* once; the fourth line shows the step-8 flow m_raw and the ws computed
\* from it, and ws keeps that value through the clamp.
C9_OutputOrder ==
  /\ Len(out) <= 5
  /\ LineNames(out) = SubSeq(LineOrder, 1, Len(out))
  /\ pc = "done" => Len(out) = 5
  /\ Len(out) >= 4 =>
       /\ out[4] = <<Item("m", MRawOf(Qs), 3, "kg/s"),
                     Item("ws", WsOf(phi, Qlat, MRawOf(Qs)), 3, "kg/kg")>>
       /\ ws = WsOf(phi, Qlat, MRawOf(Qs))

\* a finished run whose fourth line shows another m than its last line
C9_Witness ==
  /\ pc = "done"
  /\ out[4][2] = Item("ws", WsOf(phi, Qlat, MRawOf(Qs)), 3, "kg/kg")
  /\ m = mp
  /\ out[4][1].val # out[5][1].val

\* C10: the flow that enters Qlat is mp = Vd / psy.v(theta_o, wo): m equals
\* mp when line 72 runs, and Qlat keeps the value computed from mp through
\* step 8 and the clamp.
C10_LatentFlow ==
  /\ pc = "Qlat" => (m = mp /\ mp = MpOf(psyV))
  /\ Qlat # Unset => Qlat = QlatOf(mp, wo, phi)

C10_Witness ==
  /\ pc = "done"
  /\ Qlat = QlatOf(mp, wo, phi)
  /\ Qlat # QlatOf(MRawOf(Qs), wo, phi)
  /\ m = mp
=============================================================================
